---- MODULE Spec2Model ----
(***************************************************************************)
(* Translation store and language projection of the veterinary pharmacy    *)
(* API: AppHelpers.save_translations / apply_language_filter (helpers.py), *)
(* the translation tables (db.py) and the admin write routes (main.py).    *)
(***************************************************************************)
EXTENDS Integers, FiniteSets, Sequences, TLC

\* ------------------------------------------------------------------------
\* Values
\* ------------------------------------------------------------------------

\* Python's None / SQL NULL.
None == "<None>"

\* LanguageEnum: the closed set of language codes (db.py).
LanguageEnum == {"en", "ru", "hy"}

\* Keys an incoming map may carry: the three codes and one code outside the enum.
LangCodes == LanguageEnum \cup {"fr"}

\* Value already stored by earlier writes, and value carried by the request
\* under observation.
StoredValues == {"a"}
NewValues == {"b"}

\* The largest number of keys of an incoming map of the observed request.
MaxKeys == 2

\* ------------------------------------------------------------------------
\* Schema (db.py)
\* ------------------------------------------------------------------------

\* The translatable entity families modelled, named by their entity class.
Kinds == {"ProductCategory", "ProductSubcategory", "Product", "News"}

\* Every entity class that has a translations relationship.
Classes == Kinds \cup {"ProductFeature", "NewsFeatures", "NewsAuthor"}

\* Data columns of the family's translation table (id, language and the
\* foreign key aside).
Columns(kind) ==
    CASE kind = "ProductCategory" -> {"name"}
      [] kind = "ProductSubcategory" -> {"name"}
      [] kind = "Product" -> {"name", "description"}
      [] kind = "News" -> {"title"}
      [] kind = "ProductFeature" -> {"title", "description"}
      [] kind = "NewsFeatures" -> {"title", "description"}
      [] kind = "NewsAuthor" -> {"name", "position", "bio"}

\* Columns declared nullable=False.
NotNullColumns(kind) ==
    CASE kind = "ProductCategory" -> {}
      [] kind = "ProductSubcategory" -> {}
      [] kind = "Product" -> {}
      [] kind = "News" -> {"title"}
      [] kind = "ProductFeature" -> {}
      [] kind = "NewsFeatures" -> {"title"}
      [] kind = "NewsAuthor" -> {"name"}

\* The foreign-key column of the family's translation table.
ForeignKey(kind) ==
    CASE kind = "ProductCategory" -> "category_id"
      [] kind = "ProductSubcategory" -> "subcategory_id"
      [] kind = "Product" -> "product_id"
      [] kind = "News" -> "news_id"
      [] kind = "ProductFeature" -> "feature_id"
      [] kind = "NewsFeatures" -> "feature_id"
      [] kind = "NewsAuthor" -> "author_id"

\* Every column of the family's translation table.
TranslationColumns(kind) == {"id", ForeignKey(kind), "language"} \cup Columns(kind)

\* Every column of the entity table.
EntityColumns(kind) ==
    CASE kind = "ProductCategory" -> {"id", "name"}
      [] kind = "ProductSubcategory" -> {"id", "category_id", "name"}
      [] kind = "Product" ->
           {"id", "name", "price", "stock", "manufacturer", "image_url", "is_new",
            "created_at", "category_id", "subcategory_id"}
      [] kind = "News" ->
           {"id", "title", "image_url", "author_id", "published_at", "created_at",
            "updated_at"}
      [] kind = "ProductFeature" -> {"id", "product_id", "title"}
      [] kind = "NewsFeatures" -> {"id", "news_id", "title"}
      [] kind = "NewsAuthor" -> {"id", "name", "image_url"}

\* The name_field values the write routes pass for the family.
NameFields(kind) ==
    CASE kind = "ProductCategory" -> {"name"}
      [] kind = "ProductSubcategory" -> {"name"}
      [] kind = "Product" -> {"name", "description"}
      [] kind = "News" -> {"title", "description"}

\* ------------------------------------------------------------------------
\* Incoming payloads
\* ------------------------------------------------------------------------

EmptyMap == [k \in {} |-> None]

\* A value of an incoming map: a bare string, a field map, or anything else
\* (None here).
StrData(v) == [type |-> "str", v |-> v, m |-> EmptyMap]
DictData(m) == [type |-> "dict", v |-> None, m |-> m]
NoneData == [type |-> "none", v |-> None, m |-> EmptyMap]

\* translations_dict: absent (None), a string, or a map keyed by language code.
NoDict == [type |-> "none", s |-> None, items |-> EmptyMap]
StrDict(s) == [type |-> "str", s |-> s, items |-> EmptyMap]
MapDict(items) == [type |-> "dict", s |-> None, items |-> items]

\* All functions from a subset of S to T.
PartialFns(S, T) == UNION {[D -> T] : D \in SUBSET S}

\* Truthy with an empty map counted as given (a test for None alone).
Truthy_emptyMapGiven(d) ==
    CASE d.type = "none" -> FALSE
      [] d.type = "str" -> d.s # ""
      [] d.type = "dict" -> TRUE

\* Python truthiness of translations_dict.
Truthy(d) ==
    CASE d.type = "none" -> FALSE
      [] d.type = "str" -> d.s # ""
      [] d.type = "dict" -> DOMAIN d.items # {}

\* ------------------------------------------------------------------------
\* AppHelpers.save_translations (helpers.py)
\* ------------------------------------------------------------------------

\* A translation table of one entity is a function from the languages that
\* have a row to the row's data columns.
NoRows == [l \in {} |-> EmptyMap]

\* IsLanguage without the enum validation.
IsLanguage_unvalidated(lang_code) == TRUE

\* LanguageEnum(lang_code) succeeds.
IsLanguage(lang_code) == lang_code \in LanguageEnum

\* ReturnsEarly without the `not translations_dict` test.
ReturnsEarly_strOnly(translations_dict) == translations_dict.type = "str"

\* The early return: a falsy translations_dict, or a string.
ReturnsEarly(translations_dict) ==
    \/ ~Truthy(translations_dict)
    \/ translations_dict.type = "str"

\* data_map: a string becomes {name_field: data}, a dict is taken as is, and
\* for anything else dict(data) fails and the map is empty.
DataMap(data, name_field) ==
    CASE data.type = "str" -> [k \in {name_field} |-> data.v]
      [] data.type = "dict" -> data.m
      [] OTHER -> EmptyMap

\* UpdateTranslation replacing the row instead of setting the given fields.
UpdateTranslation_replace(kind, trans_obj, data_map) ==
    [c \in Columns(kind) |->
        IF c \in DOMAIN data_map THEN data_map[c] ELSE None]

\* The update branch: setattr(trans_obj, k, v) for every item of data_map. A
\* key that names no column sets a plain attribute that is never persisted.
UpdateTranslation(kind, trans_obj, data_map) ==
    [c \in Columns(kind) |->
        IF c \in DOMAIN data_map THEN data_map[c] ELSE trans_obj[c]]

\* The create branch: ModelClass(language=language, **data_map). Columns
\* without a keyword stay NULL.
NewTranslation(kind, data_map) ==
    [c \in Columns(kind) |->
        IF c \in DOMAIN data_map THEN data_map[c] ELSE None]

\* ModelClass(**data_map) raises TypeError for a keyword that names no
\* attribute of the class.
InvalidKeyword(kind, data_map) ==
    \E k \in DOMAIN data_map : k \notin Columns(kind)

\* DeletedLangs with the delete loop left out.
DeletedLangs_none(existing_langs, incoming_langs) == {}

\* DeletedLangs with the membership test inverted.
DeletedLangs_inverted(existing_langs, incoming_langs) ==
    existing_langs \cap incoming_langs

\* The delete loop: rows of existing whose language is not in incoming_langs.
DeletedLangs(existing_langs, incoming_langs) ==
    existing_langs \ incoming_langs

\* Flushing a row with NULL in a nullable=False column raises IntegrityError.
ViolatesNotNull(kind, table) ==
    \E l \in DOMAIN table : \E c \in NotNullColumns(kind) : table[l][c] = None

\* The whole call on the committed rows of one entity. The result is the rows
\* after the call, whether the call raised, and whether it reached db.commit().
save_translations(rows, translations_dict, kind, name_field) ==
    IF ReturnsEarly(translations_dict)
    THEN [rows |-> rows, raised |-> FALSE, committed |-> FALSE]
    ELSE
      LET items == translations_dict.items
          existing == rows
          incoming_langs == {c \in DOMAIN items : IsLanguage(c)}
          dm(l) == DataMap(items[l], name_field)
          created == incoming_langs \ DOMAIN existing
          typeError == \E l \in created : InvalidKeyword(kind, dm(l))
          upserted ==
            [l \in DOMAIN existing \cup incoming_langs |->
                IF l \notin incoming_langs THEN existing[l]
                ELSE IF l \in DOMAIN existing
                     THEN UpdateTranslation(kind, existing[l], dm(l))
                     ELSE NewTranslation(kind, dm(l))]
          deleted == DeletedLangs(DOMAIN existing, incoming_langs)
          flushed == [l \in DOMAIN upserted \ deleted |-> upserted[l]]
      IN  IF typeError \/ ViolatesNotNull(kind, flushed)
          THEN [rows |-> rows, raised |-> TRUE, committed |-> FALSE]
          ELSE [rows |-> flushed, raised |-> FALSE, committed |-> TRUE]

\* ------------------------------------------------------------------------
\* AppHelpers.apply_language_filter (helpers.py)
\* ------------------------------------------------------------------------

\* A loaded object: its class, primary key, fallback scalar and translation
\* rows, with the objects its relationships hold.
NoObject == [kind |-> "None"]

Object(kind, id, fallback, rows, features, subcategories, author) ==
    [kind |-> kind, id |-> id, fallback |-> fallback, rows |-> rows,
     features |-> features, subcategories |-> subcategories, author |-> author]

\* An object without related objects.
Leaf(kind, id, fallback, rows) ==
    Object(kind, id, fallback, rows, <<>>, <<>>, NoObject)

\* The values of a serialized object, by their JSON form.
Scalar(v) == [form |-> "scalar", value |-> v]
Map(m) == [form |-> "map", value |-> m]
List(items) == [form |-> "list", value |-> items]
Nested(o) == [form |-> "object", value |-> o]

\* The fallback scalar column of the entity table.
FallbackField(kind) ==
    IF kind \in {"News", "ProductFeature", "NewsFeatures"} THEN "title" ELSE "name"

\* getattr(obj, c.key) for a column of the entity table.
EntityValue(obj, c) ==
    IF c = "id" THEN obj.id
    ELSE IF c = FallbackField(obj.kind) THEN obj.fallback
    ELSE "x"

\* ExcludedColumns without the primary key.
ExcludedColumns_withoutId ==
    {"language", "types_id", "category_id", "product_id", "news_id", "feature_id",
     "author_id"}

\* The column keys left out of the translation data.
ExcludedColumns ==
    {"id", "language", "types_id", "category_id", "product_id", "news_id",
     "feature_id", "author_id"}

\* The keys of t_cols: the translation table's columns not left out.
ProjectedColumns(kind) == TranslationColumns(kind) \ ExcludedColumns

\* getattr(t, c.key) for a column of the translation row of language l: a
\* data column, the row's own primary key, its language, or the foreign key
\* holding the entity's id.
TranslationValue(obj, l, c) ==
    IF c \in Columns(obj.kind) THEN obj.rows[l][c]
    ELSE IF c = "id" THEN "t"
    ELSE IF c = "language" THEN l
    ELSE obj.id

\* translations_map: language -> t_cols of that language's row.
TranslationsMap(obj) ==
    [l \in DOMAIN obj.rows |->
        [c \in ProjectedColumns(obj.kind) |-> TranslationValue(obj, l, c)]]

\* TranslatableKeys finding no key.
TranslatableKeys_none(obj) == {}

\* The keys of the first translation row (none when there is no row).
TranslatableKeys(obj) ==
    IF DOMAIN obj.rows = {} THEN {} ELSE ProjectedColumns(obj.kind)

\* NestedField without the "" default for a language that has no row.
NestedField_rowsOnly(obj, key) ==
    [lang_code \in DOMAIN obj.rows |-> TranslationsMap(obj)[lang_code][key]]

\* The all-languages branch: key -> {lang: value, or "" without a row}.
NestedField(obj, key) ==
    [lang_code \in LanguageEnum |->
        IF lang_code \in DOMAIN obj.rows THEN TranslationsMap(obj)[lang_code][key]
        ELSE ""]

\* Whether the call takes the single-language branch.
FlatBranch(rows, lang) == lang # None /\ lang # "" /\ lang \in DOMAIN rows

\* hasattr(obj, "features") and obj.features
HasFeatures(obj) == obj.kind \in {"Product", "News"} /\ obj.features # <<>>

\* hasattr(obj, "author") and obj.author
HasAuthor(obj) == obj.kind = "News" /\ obj.author # NoObject

\* The serialized object: the entity's own columns, overwritten by the
\* language's columns plus "language" (flat) or by the nested maps, then the
\* features and the author serialized with the same lang.
RECURSIVE apply_language_filter(_, _)
apply_language_filter(obj, lang) ==
    IF obj = NoObject THEN EmptyMap
    ELSE
      LET flat == FlatBranch(obj.rows, lang)
          translated == IF flat THEN ProjectedColumns(obj.kind) \cup {"language"}
                        ELSE TranslatableKeys(obj)
          keys == EntityColumns(obj.kind) \cup translated
                    \cup (IF HasFeatures(obj) THEN {"features"} ELSE {})
                    \cup (IF HasAuthor(obj) THEN {"author"} ELSE {})
      IN  [k \in keys |->
              IF k = "features" /\ HasFeatures(obj)
              THEN List([i \in DOMAIN obj.features |->
                           apply_language_filter(obj.features[i], lang)])
              ELSE IF k = "author" /\ HasAuthor(obj)
              THEN Nested(apply_language_filter(obj.author, lang))
              ELSE IF k \in translated
              THEN IF flat
                   THEN IF k = "language" THEN Scalar(lang)
                        ELSE Scalar(TranslationsMap(obj)[lang][k])
                   ELSE Map(NestedField(obj, k))
              ELSE Scalar(EntityValue(obj, k))]

\* ------------------------------------------------------------------------
\* Admin write routes (main.py), for one entity of a family
\* ------------------------------------------------------------------------

\* The committed state of the entity: whether its row exists, its fallback
\* scalar, and its translation rows.
NoEntity == [exists |-> FALSE, fallback |-> "", rows |-> NoRows]

Range(f) == {f[x] : x \in DOMAIN f}

\* next(iter(data.name.values())) if data.name else "": the first value of the
\* map in the order of the request body, so any value of the map.
FirstValues(name) ==
    IF Truthy(name) /\ name.type = "dict"
    THEN {x.v : x \in Range(name.items)}
    ELSE {""}

\* `if data.name and isinstance(data.name, dict)`: the guard in front of a
\* save_translations call.
Provided(d) == Truthy(d) /\ d.type = "dict"

Call(d, name_field) == [d |-> d, nf |-> name_field]

\* The route's save_translations calls in order, on one session, then the
\* route's final db.commit(). Every save_translations that gets past its early
\* return commits the session, the pending entity row included. A call that
\* raises ends the request: the session is closed and what was not committed
\* is rolled back.
RECURSIVE RunSaves(_, _, _, _)
RunSaves(kind, committed, session, calls) ==
    IF calls = <<>>
    THEN [db |-> session, raised |-> FALSE]
    ELSE LET c == Head(calls)
             r == IF Provided(c.d)
                  THEN save_translations(session.rows, c.d, kind, c.nf)
                  ELSE [rows |-> session.rows, raised |-> FALSE, committed |-> FALSE]
         IN  IF r.raised
             THEN [db |-> committed, raised |-> TRUE]
             ELSE IF r.committed
                  THEN RunSaves(kind, [session EXCEPT !.rows = r.rows],
                                [session EXCEPT !.rows = r.rows], Tail(calls))
                  ELSE RunSaves(kind, committed, session, Tail(calls))

\* The entity row a create route adds and flushes before its translations.
NewEntity(fallback_name) ==
    [exists |-> TRUE, fallback |-> fallback_name, rows |-> NoRows]

create_category(db, name, fallback_name) ==
    RunSaves("ProductCategory", db, NewEntity(fallback_name),
             <<Call(name, "name")>>)

update_category(db, name, fallback_name) ==
    RunSaves("ProductCategory", db,
             IF Truthy(name) THEN [db EXCEPT !.fallback = fallback_name] ELSE db,
             <<Call(name, "name")>>)

\* create_subcategory, for a category_id that exists.
create_subcategory(db, name, fallback_name) ==
    RunSaves("ProductSubcategory", db, NewEntity(fallback_name),
             <<Call(name, "name")>>)

update_subcategory(db, name, fallback_name) ==
    RunSaves("ProductSubcategory", db,
             IF Truthy(name) THEN [db EXCEPT !.fallback = fallback_name] ELSE db,
             <<Call(name, "name")>>)

create_product(db, name, description, fallback_name) ==
    RunSaves("Product", db, NewEntity(fallback_name),
             <<Call(name, "name"), Call(description, "description")>>)

update_product(db, name, description) ==
    RunSaves("Product", db, db,
             <<Call(name, "name"), Call(description, "description")>>)

create_news(db, name, description, fallback_name) ==
    RunSaves("News", db, NewEntity(fallback_name),
             <<Call(name, "title"), Call(description, "description")>>)

update_news(db, name, description) ==
    RunSaves("News", db, db,
             <<Call(name, "title"), Call(description, "description")>>)

\* delete_category / delete_subcategory / delete_product / delete_news:
\* db.delete(db_obj) cascades
\* to the translation rows.
delete_entity(db) == [db |-> NoEntity, raised |-> FALSE]

\* ------------------------------------------------------------------------
\* Requests
\* ------------------------------------------------------------------------

\* All functions from a subset of S with at most n elements to T.
BoundedFns(S, T, n) ==
    UNION {[D -> T] : D \in {X \in SUBSET S : Cardinality(X) <= n}}

\* Multilingual maps of the requests that populate the store.
SetupMaps ==
    {MapDict(f) : f \in PartialFns(LanguageEnum, {StrData(v) : v \in StoredValues})}

\* Multilingual maps (Dict[str, str]) of the observed route request.
RouteMaps ==
    {MapDict(f) : f \in BoundedFns(LangCodes, {StrData(v) : v \in NewValues}, MaxKeys)}

\* Values of a map handed to save_translations directly.
DataForms(kind) ==
    {StrData(v) : v \in NewValues}
      \cup {DictData(m) : m \in PartialFns(NameFields(kind), {"b", None})}
      \cup {NoneData}

\* translations_dict of the observed save_translations call.
HelperDicts(kind) ==
    {NoDict, StrDict("b")}
      \cup {MapDict(f) : f \in BoundedFns(LangCodes, DataForms(kind), MaxKeys)}

\* name_field of the observed save_translations call: the call sites pass a
\* field name together with a map of strings (Dict[str, str]); a map with
\* other values goes with the parameter's default, "name".
NameFieldArgs(kind, d) ==
    IF d.type = "dict" /\ \A l \in DOMAIN d.items : d.items[l].type = "str"
    THEN NameFields(kind)
    ELSE {"name"}

\* ------------------------------------------------------------------------
\* State
\* ------------------------------------------------------------------------

VARIABLES
    kind,    \* the family of the entity the requests address
    db,      \* the committed state of the entity
    pc,      \* "setup", then "observed" after the observed request, then "repeated"
    req,     \* the observed request
    pre,     \* the committed state before the observed request
    once,    \* the committed state after the observed request's first run
    raised,  \* whether the latest run of the observed request raised
    categories,  \* ids of the committed product_categories rows
    table,       \* the committed product_categories_translations rows
    nextId,      \* the next primary key of each of the two tables
    sess,        \* the request each concurrent session is handling
    obj,         \* the object a read serializes, as loaded from the database
    view,        \* the read made of obj and what it returned
    users,       \* the committed users rows
    now,         \* the clock, in minutes
    held,        \* the token the latest successful login returned
    writes,      \* the number of admin handlers that have written to the database
    resp,        \* the latest response of an auth or admin route
    dialect,     \* the database behind SQLALCHEMY_DATABASE_URL
    store,       \* the committed category and subcategory rows and their translations
    exchange,    \* the request the WSGI application is answering, and its response
    catalog,     \* the committed products with their features
    pending,     \* the register request each concurrent session is handling
    links        \* the committed authors, news and products with their references

seqVars == <<kind, db, pc, req, pre, once, raised>>
concVars == <<categories, table, nextId, sess>>
projVars == <<obj, view>>
authVars == <<users, now, held, writes, resp>>
cascadeVars == <<dialect, store>>
restVars == <<exchange, catalog, pending, links>>
auxVars == <<projVars, authVars, cascadeVars, restVars>>
vars == <<seqVars, concVars, auxVars>>

NoReq == [op |-> "none", d |-> NoDict, nf |-> "", name |-> NoDict,
          description |-> NoDict]

HelperReq(d, name_field) ==
    [op |-> "save_translations", d |-> d, nf |-> name_field, name |-> NoDict,
     description |-> NoDict]

RouteReq(op, name, description) ==
    [op |-> op, d |-> NoDict, nf |-> "", name |-> name, description |-> description]

\* A session between requests.
Idle(outcome) ==
    [pc |-> "idle", id |-> 0, name |-> NoDict, existing |-> {}, outcome |-> outcome]

InitSeq ==
    /\ db = NoEntity
    /\ pc = "setup"
    /\ req = NoReq
    /\ pre = NoEntity
    /\ once = NoEntity
    /\ raised = FALSE

InitConc ==
    /\ categories = {}
    /\ table = {}
    /\ nextId = [category |-> 1, translation |-> 1]
    /\ sess = [s \in {"s1", "s2"} |-> Idle("none")]

\* No object loaded, no read made.
NoView == [op |-> "none"]

InitProj ==
    /\ obj = NoObject
    /\ view = NoView

\* A request without an Authorization header, and a bearer string that is no JWT.
NoToken == [form |-> "none", sub |-> None, exp |-> 0, key |-> None]
Garbage == [form |-> "garbage", sub |-> None, exp |-> 0, key |-> None]

\* A JWT with its sub and exp claims and the key that signed it.
Jwt(sub, exp, key) == [form |-> "jwt", sub |-> sub, exp |-> exp, key |-> key]

\* No auth or admin request answered yet.
NoResponse == [route |-> "none", token |-> NoToken, status |-> 0, user |-> None]

InitAuth ==
    /\ users = {}
    /\ now = 0
    /\ held = NoToken
    /\ writes = 0
    /\ resp = NoResponse

\* The four tables of the category family, empty.
EmptyStore ==
    [categories |-> {}, category_translations |-> {},
     subcategories |-> {}, subcategory_translations |-> {}]

InitCascade ==
    /\ dialect = "sqlite"
    /\ store = EmptyStore

\* No request in the WSGI application.
NoExchange == [pc |-> "idle"]

\* No product, no feature.
EmptyCatalog == [products |-> {}, features |-> {}]

\* No register request in a session.
NoRegistration ==
    [pc |-> "idle", username |-> "", email |-> "", is_admin |-> FALSE,
     existed |-> FALSE, status |-> 0]

\* No author, news item, product, category or subcategory.
EmptyLinks ==
    [authors |-> {}, news |-> <<>>, products |-> <<>>, categories |-> {},
     subcategories |-> <<>>]

InitRest ==
    /\ exchange = NoExchange
    /\ catalog = EmptyCatalog
    /\ pending = [s \in {"s1", "s2"} |-> NoRegistration]
    /\ links = EmptyLinks

InitAux == InitProj /\ InitAuth /\ InitCascade /\ InitRest

Init ==
    /\ kind \in Kinds
    /\ InitSeq
    /\ InitConc
    /\ InitAux

\* A request of the setup phase leaves no record; the observed request does.
Finish(observe, request, result) ==
    /\ db' = result.db
    /\ IF observe
       THEN /\ pc' = "observed"
            /\ req' = request
            /\ pre' = db
            /\ once' = result.db
            /\ raised' = result.raised
       ELSE UNCHANGED <<pc, req, pre, once, raised>>
    /\ UNCHANGED <<kind, concVars, auxVars>>

MapsFor(observe) == IF observe THEN RouteMaps ELSE SetupMaps

\* ------------------------------------------------------------------------
\* Actions
\* ------------------------------------------------------------------------

CreateCategory ==
    /\ pc = "setup" /\ kind = "ProductCategory" /\ ~db.exists
    /\ \E observe \in BOOLEAN : \E name \in MapsFor(observe) :
       \E fb \in FirstValues(name) :
         Finish(observe, RouteReq("create_category", name, NoDict),
                create_category(db, name, fb))

UpdateCategory ==
    /\ pc = "setup" /\ kind = "ProductCategory" /\ db.exists
    /\ \E observe \in BOOLEAN : \E name \in MapsFor(observe) \cup {NoDict} :
       \E fb \in FirstValues(name) :
         Finish(observe, RouteReq("update_category", name, NoDict),
                update_category(db, name, fb))

CreateSubcategory ==
    /\ pc = "setup" /\ kind = "ProductSubcategory" /\ ~db.exists
    /\ \E observe \in BOOLEAN : \E name \in MapsFor(observe) :
       \E fb \in FirstValues(name) :
         Finish(observe, RouteReq("create_subcategory", name, NoDict),
                create_subcategory(db, name, fb))

UpdateSubcategory ==
    /\ pc = "setup" /\ kind = "ProductSubcategory" /\ db.exists
    /\ \E observe \in BOOLEAN : \E name \in MapsFor(observe) \cup {NoDict} :
       \E fb \in FirstValues(name) :
         Finish(observe, RouteReq("update_subcategory", name, NoDict),
                update_subcategory(db, name, fb))

CreateProduct ==
    /\ pc = "setup" /\ kind = "Product" /\ ~db.exists
    /\ \E observe \in BOOLEAN : \E name, description \in MapsFor(observe) :
       \E fb \in FirstValues(name) :
         Finish(observe, RouteReq("create_product", name, description),
                create_product(db, name, description, fb))

UpdateProduct ==
    /\ pc = "setup" /\ kind = "Product" /\ db.exists
    /\ \E observe \in BOOLEAN :
       \E name, description \in MapsFor(observe) \cup {NoDict} :
         Finish(observe, RouteReq("update_product", name, description),
                update_product(db, name, description))

CreateNews ==
    /\ pc = "setup" /\ kind = "News" /\ ~db.exists
    /\ \E observe \in BOOLEAN : \E name \in MapsFor(observe) :
       \E description \in MapsFor(observe) \cup {NoDict} :
       \E fb \in FirstValues(name) :
         Finish(observe, RouteReq("create_news", name, description),
                create_news(db, name, description, fb))

UpdateNews ==
    /\ pc = "setup" /\ kind = "News" /\ db.exists
    /\ \E observe \in BOOLEAN :
       \E name, description \in MapsFor(observe) \cup {NoDict} :
         Finish(observe, RouteReq("update_news", name, description),
                update_news(db, name, description))

DeleteEntity ==
    /\ pc = "setup" /\ db.exists
    /\ \E observe \in BOOLEAN :
         Finish(observe, RouteReq("delete", NoDict, NoDict), delete_entity(db))

\* One save_translations call on the entity, as a route makes it: the session
\* holds nothing but the call's own changes.
SaveResult(d, name_field) ==
    LET r == save_translations(db.rows, d, kind, name_field)
    IN  [db |-> [db EXCEPT !.rows = r.rows], raised |-> r.raised]

SaveTranslations ==
    /\ pc = "setup" /\ db.exists
    /\ \E d \in HelperDicts(kind) : \E name_field \in NameFieldArgs(kind, d) :
         Finish(TRUE, HelperReq(d, name_field), SaveResult(d, name_field))

\* The same save_translations call made a second time.
SaveTranslationsAgain ==
    /\ pc = "observed" /\ req.op = "save_translations"
    /\ LET result == SaveResult(req.d, req.nf)
       IN  /\ db' = result.db
           /\ raised' = result.raised
    /\ pc' = "repeated"
    /\ UNCHANGED <<kind, req, pre, once, concVars, auxVars>>

Next ==
    \/ CreateCategory
    \/ UpdateCategory
    \/ CreateSubcategory
    \/ UpdateSubcategory
    \/ CreateProduct
    \/ UpdateProduct
    \/ CreateNews
    \/ UpdateNews
    \/ DeleteEntity
    \/ SaveTranslations
    \/ SaveTranslationsAgain

Spec == Init /\ [][Next]_vars

\* ------------------------------------------------------------------------
\* Properties of save_translations and the write routes
\* ------------------------------------------------------------------------

\* The observed request was a save_translations call (run once or twice).
SaveObserved == pc \in {"observed", "repeated"} /\ req.op = "save_translations"

\* The observed save_translations call has run exactly once.
SavedOnce == pc = "observed" /\ req.op = "save_translations"

\* The call was given a map (not None, not a string).
GivenMap == req.d.type = "dict"

\* The recognized language codes among the keys of a map.
RecognizedKeys(d) == DOMAIN d.items \cap {"en", "ru", "hy"}

\* The fields the map supplies for language l.
Supplied(l) == DataMap(req.d.items[l], req.nf)

\* C1: after save_translations returns from a non-empty map M, the languages
\* that have a row are exactly the recognized codes among the keys of M,
\* whatever rows existed before; the same after update_category with a
\* non-empty name map.
C1_DeletionByOmission ==
    /\ (SavedOnce /\ GivenMap /\ DOMAIN req.d.items # {} /\ ~raised)
          => DOMAIN db.rows = RecognizedKeys(req.d)
    /\ (pc = "observed" /\ req.op \in {"update_category", "update_subcategory"}
          /\ req.name.type = "dict"
          /\ DOMAIN req.name.items # {} /\ ~raised)
          => DOMAIN db.rows = RecognizedKeys(req.name)

\* Rows for en, ru and hy existed and a map with the single key en left only en.
C1_Witness ==
    /\ SavedOnce /\ GivenMap /\ ~raised
    /\ DOMAIN pre.rows = {"en", "ru", "hy"}
    /\ DOMAIN req.d.items = {"en"}
    /\ DOMAIN db.rows = {"en"}

C3_AbsentKeyNoOp ==
    /\ (pc = "observed"
          /\ req.op \in {"update_category", "update_subcategory", "update_product",
                         "update_news"}
          /\ req.name = NoDict /\ req.description = NoDict)
          => (~raised /\ db.rows = pre.rows)
    /\ (SavedOnce /\ req.d = NoDict) => (~raised /\ db.rows = pre.rows)

\* An update without multilingual fields ran on an entity that has rows.
C3_Witness ==
    /\ pc = "observed" /\ req.op = "update_product"
    /\ req.name = NoDict /\ req.description = NoDict
    /\ DOMAIN pre.rows = {"en", "ru"}
    /\ db.rows = pre.rows

\* C4 as stated: a request that fails leaves nothing of itself committed.
C4_FailedRequestLeavesNothing ==
    (pc = "observed" /\ raised) => db = pre

\* C6 as stated: after save_translations returns from a map whose keys are
\* all recognized, apply_language_filter(lang=None) gives, for every language
\* and field the map supplied, the supplied value.
C6_RoundTrip ==
    (SavedOnce /\ GivenMap /\ ~raised /\ DOMAIN req.d.items \subseteq {"en", "ru", "hy"})
        => LET out == apply_language_filter(Leaf(kind, "1", db.fallback, db.rows), None)
           IN  \A l \in DOMAIN req.d.items : \A f \in DOMAIN Supplied(l) :
                 /\ f \in DOMAIN out
                 /\ out[f].form = "map"
                 /\ out[f].value[l] = Supplied(l)[f]

\* C7: a save_translations call made twice in a row leaves the rows the first
\* call left.
C7_Idempotent ==
    pc = "repeated" => db = once

\* The first call changed the rows and the second call left them alone.
C7_Witness ==
    /\ pc = "repeated" /\ ~raised
    /\ DOMAIN pre.rows # DOMAIN once.rows
    /\ DOMAIN once.rows = {"en", "ru"}
    /\ db = once

\* C8 as stated: a row created for a new language takes, for every column
\* the incoming fields leave out, the value a sibling row has for it.
C8_SiblingDefault ==
    (SavedOnce /\ GivenMap /\ ~raised)
        => \A l \in DOMAIN db.rows \ DOMAIN pre.rows : \A c \in Columns(kind) :
             (c \notin DOMAIN Supplied(l)
                /\ \E s \in DOMAIN pre.rows : pre.rows[s][c] # None)
             => \E s \in DOMAIN pre.rows :
                  pre.rows[s][c] # None /\ db.rows[l][c] = pre.rows[s][c]

\* C9: on a row that existed for an incoming language, save_translations sets
\* exactly the columns named in the incoming fields; every other column keeps
\* its value.
C9_UpdateSetsGivenFieldsOnly ==
    (SavedOnce /\ GivenMap /\ ~raised)
        => \A l \in DOMAIN pre.rows \cap DOMAIN req.d.items :
             /\ l \in DOMAIN db.rows
             /\ \A c \in Columns(kind) :
                  db.rows[l][c] = IF c \in DOMAIN Supplied(l)
                                  THEN Supplied(l)[c]
                                  ELSE pre.rows[l][c]

\* A product row with name and description got a new name and kept its
\* description.
C9_Witness ==
    /\ SavedOnce /\ GivenMap /\ ~raised /\ kind = "Product"
    /\ "en" \in DOMAIN pre.rows /\ "en" \in DOMAIN req.d.items
    /\ DOMAIN Supplied("en") = {"name"}
    /\ pre.rows["en"]["name"] = "a" /\ pre.rows["en"]["description"] = "a"
    /\ db.rows["en"]["name"] = "b" /\ db.rows["en"]["description"] = "a"

\* The map without its unrecognized keys.
WithoutUnknown(d) ==
    MapDict([c \in RecognizedKeys(d) |-> d.items[c]])

\* C10: a key outside en, ru, hy never gets a row, never makes the call raise,
\* and never changes what the call does for the recognized keys.
C10_UnknownLanguageDropped ==
    /\ DOMAIN db.rows \subseteq {"en", "ru", "hy"}
    /\ (SavedOnce /\ GivenMap /\ RecognizedKeys(req.d) = {})
          => (~raised /\ \A l \in DOMAIN db.rows :
                            l \in DOMAIN pre.rows /\ db.rows[l] = pre.rows[l])
    /\ (SavedOnce /\ GivenMap /\ RecognizedKeys(req.d) # {})
          => LET r == save_translations(pre.rows, WithoutUnknown(req.d), kind, req.nf)
             IN  raised = r.raised /\ db.rows = r.rows

\* A map with the key fr next to en was saved for an entity with rows.
C10_Witness ==
    /\ SavedOnce /\ GivenMap /\ ~raised
    /\ DOMAIN req.d.items = {"en", "fr"}
    /\ DOMAIN pre.rows = {"en", "ru"}
    /\ DOMAIN db.rows = {"en"}

\* The observed request is a write route, or a save_translations call with a
\* map of strings and a name_field the routes pass for the family.
DataQualityRequest ==
    /\ pc = "observed"
    /\ \/ req.op \in {"create_category", "update_category", "create_subcategory",
                      "update_subcategory", "create_product", "update_product",
                      "create_news", "update_news"}
       \/ /\ req.op = "save_translations" /\ GivenMap
          /\ \A l \in DOMAIN req.d.items : req.d.items[l].type = "str"
          /\ req.nf \in NameFields(kind)

\* C11 as stated: a map that adds a language, omits a language or supplies
\* only some fields never makes save_translations raise, whatever the family
\* and whichever name_field the routes pass.
C11_NoRaiseOnDataQuality ==
    DataQualityRequest => ~raised

\* ------------------------------------------------------------------------
\* Concurrent requests on product_categories and its translation table
\* ------------------------------------------------------------------------

Sessions == {"s1", "s2"}

\* The concurrent requests address one category: a category created after it
\* has another id and shares no row with it.
CategoryIds == {1}

\* The largest primary key handed out in the translation table.
MaxTranslationId == 3

\* The name maps of the concurrent requests.
ConcMaps ==
    {MapDict([l \in D |-> StrData(v)]) :
        D \in (SUBSET {"en", "hy"}) \ {{}}, v \in {"a", "b"}}

\* Position of a language among the rows one flush inserts.
LangRank(l) == CASE l = "en" -> 0 [] l = "ru" -> 1 [] OTHER -> 2

\* The unique constraint without effect.
UniqueViolation_unchecked(tbl, category_id, language) == FALSE

\* UniqueConstraint("category_id", "language"): the insert of a second row for
\* the pair fails with IntegrityError.
UniqueViolation(tbl, category_id, language) ==
    \E t \in tbl : t.category_id = category_id /\ t.language = language

\* existing_q.all(): the committed rows of the category.
RowsOf(tbl, category_id) == {t \in tbl : t.category_id = category_id}

\* save_translations from its dict of existing rows to db.commit(), run by a
\* session whose rows were read earlier, against the rows committed now. The
\* flush sends an UPDATE for each row whose columns changed (StaleDataError
\* when the row is gone), an INSERT for each new language (IntegrityError on
\* the unique constraint or on the foreign key) and a DELETE for each row
\* left out of the map (a DELETE that finds no row only warns).
Flush(tbl, cats, next, category_id, name, existing_rows) ==
    LET items == name.items
        existing == [l \in {t.language : t \in existing_rows} |->
                        CHOOSE t \in existing_rows : t.language = l]
        incoming_langs == {c \in DOMAIN items : IsLanguage(c)}
        dm(l) == DataMap(items[l], "name")
        target(l) == UpdateTranslation("ProductCategory", existing[l].cols, dm(l))
        dirty == {l \in incoming_langs \cap DOMAIN existing :
                    target(l) # existing[l].cols}
        created == incoming_langs \ DOMAIN existing
        deletedIds == {existing[l].id :
                         l \in DeletedLangs(DOMAIN existing, incoming_langs)}
        stale == \E l \in dirty : ~ \E t \in tbl : t.id = existing[l].id
        integrity ==
            \/ \E l \in created : UniqueViolation(tbl, category_id, l)
            \/ created # {} /\ category_id \notin cats
        written(t) ==
            IF \E l \in dirty : existing[l].id = t.id
            THEN LET l == CHOOSE k \in dirty : existing[k].id = t.id
                 IN  [t EXCEPT !.cols =
                        [c \in DOMAIN t.cols |->
                            IF target(l)[c] # existing[l].cols[c]
                            THEN target(l)[c] ELSE t.cols[c]]]
            ELSE t
        inserted ==
            {[id |-> next + Cardinality({k \in created : LangRank(k) < LangRank(l)}),
              category_id |-> category_id,
              language |-> l,
              cols |-> NewTranslation("ProductCategory", dm(l))] : l \in created}
    IN  IF stale THEN [table |-> tbl, used |-> 0, outcome |-> "StaleDataError"]
        ELSE IF integrity THEN [table |-> tbl, used |-> 0, outcome |-> "IntegrityError"]
        ELSE [table |-> {t \in {written(u) : u \in tbl} \cup inserted :
                           t.id \notin deletedIds},
              used |-> Cardinality(created),
              outcome |-> "ok"]

InitC ==
    /\ kind = "ProductCategory"
    /\ InitSeq
    /\ InitConc
    /\ InitAux

\* create_category: the new category has a fresh id, so no other session
\* holds rows of it; the request takes effect in one step.
ConcCreateCategory ==
    /\ nextId.category \in CategoryIds
    /\ \E name \in ConcMaps :
         LET id == nextId.category
             r == Flush(table, categories \cup {id}, nextId.translation, id, name, {})
         IN  /\ nextId.translation + r.used - 1 <= MaxTranslationId
             /\ categories' = categories \cup {id}
             /\ table' = r.table
             /\ nextId' = [category |-> id + 1,
                           translation |-> nextId.translation + r.used]
    /\ UNCHANGED <<sess, seqVars, auxVars>>

\* update_category up to db.get(ProductCategory, id).
ConcBegin(s) ==
    /\ sess[s].pc = "idle"
    /\ \E id \in CategoryIds : \E name \in ConcMaps :
         sess' = [sess EXCEPT ![s] =
                    IF id \in categories
                    THEN [pc |-> "got", id |-> id, name |-> name,
                          existing |-> {}, outcome |-> "none"]
                    ELSE Idle("404")]
    /\ UNCHANGED <<categories, table, nextId, seqVars, auxVars>>

\* save_translations up to the dict of existing rows.
ConcLoad(s) ==
    /\ sess[s].pc = "got"
    /\ sess' = [sess EXCEPT ![s].pc = "loaded",
                            ![s].existing = RowsOf(table, sess[s].id)]
    /\ UNCHANGED <<categories, table, nextId, seqVars, auxVars>>

\* save_translations from its loop to db.commit(), and the rest of the route.
ConcCommit(s) ==
    /\ sess[s].pc = "loaded"
    /\ LET r == Flush(table, categories, nextId.translation, sess[s].id,
                      sess[s].name, sess[s].existing)
       IN  /\ nextId.translation + r.used - 1 <= MaxTranslationId
           /\ table' = r.table
           /\ nextId' = [nextId EXCEPT !.translation = @ + r.used]
           /\ sess' = [sess EXCEPT ![s] = Idle(r.outcome)]
    /\ UNCHANGED <<categories, seqVars, auxVars>>

\* delete_category: the category row and, by cascade, its translation rows.
ConcDeleteCategory ==
    /\ \E id \in categories :
         /\ categories' = categories \ {id}
         /\ table' = {t \in table : t.category_id # id}
    /\ UNCHANGED <<nextId, sess, seqVars, auxVars>>

NextC ==
    \/ ConcCreateCategory
    \/ \E s \in Sessions : ConcBegin(s)
    \/ \E s \in Sessions : ConcLoad(s)
    \/ \E s \in Sessions : ConcCommit(s)
    \/ ConcDeleteCategory

SpecConc == InitC /\ [][NextC]_vars

\* C5: in every reachable state, under any interleaving of create, update and
\* delete requests, a category has at most one translation row per language.
C5_OneRowPerLanguage ==
    \A t, u \in table :
        (t.category_id = u.category_id /\ t.language = u.language) => t = u

\* Two sessions both read a category without a hy row and both added one: the
\* first insert is committed and the second was refused.
C5_Witness ==
    /\ sess["s2"].outcome = "IntegrityError"
    /\ sess["s1"].outcome = "ok"
    /\ \E t \in table : t.language = "hy"

\* C21 as stated: whenever a session's save_translations commits on a
\* category that is still there, the committed rows of the category are those
\* its map determines, one row for each recognized key with the name given
\* for it, whatever the other session's save_translations committed in
\* between.
C21_LastCommitWins ==
    [][\A s \in Sessions :
          (sess[s].pc = "loaded" /\ sess'[s].pc = "idle" /\ sess'[s].outcome = "ok"
             /\ sess[s].id \in categories)
             => LET items == sess[s].name.items
                    rows == RowsOf(table', sess[s].id)
                IN  /\ {t.language : t \in rows} = DOMAIN items \cap {"en", "ru", "hy"}
                    /\ \A t \in rows : t.cols["name"] = items[t.language].v]_vars

\* ------------------------------------------------------------------------
\* Reads: apply_language_filter and the category endpoints on a loaded object
\* ------------------------------------------------------------------------

\* The largest number of features of a product or a news item, and of
\* subcategories of a category.
MaxFeatures == 1
MaxSubcategories == 1

\* The lang query parameter: omitted, empty, a language code, or another code.
Langs == {None, ""} \cup LangCodes

\* The rows a translation table can hold for one entity: a stored value or
\* NULL in each data column, never NULL in a nullable=False column.
RowValues(k) ==
    {r \in [Columns(k) -> StoredValues \cup {None}] :
        \A c \in NotNullColumns(k) : r[c] # None}

RowSets(k) == PartialFns(LanguageEnum, RowValues(k))

\* Rows of a related object: every column holds a value.
ChildRowSets(k) == PartialFns(LanguageEnum, {[c \in Columns(k) |-> "a"]})

\* Primary keys of the related objects, by position.
ChildId(i) == CASE i = 1 -> "11" [] i = 2 -> "12" [] OTHER -> "13"

\* Lists of at most n related objects of class k.
Children(k, n) ==
    UNION {{[i \in 1..len |-> Leaf(k, ChildId(i), "fb", rs[i])] :
               rs \in [1..len -> ChildRowSets(k)]} : len \in 0..n}

\* The objects a read can load, by class.
Loaded(k) ==
    CASE k = "Product" ->
           {Object(k, "1", "fb", rows, features, <<>>, NoObject) :
               rows \in RowSets(k), features \in Children("ProductFeature", MaxFeatures)}
      [] k = "News" ->
           {Object(k, "1", "fb", rf[1], rf[2], <<>>, author) :
               rf \in RowSets(k) \X Children("NewsFeatures", MaxFeatures),
               author \in {NoObject} \cup
                         {Leaf("NewsAuthor", "21", "fb", rs) : rs \in ChildRowSets("NewsAuthor")}}
      [] k = "ProductCategory" ->
           {Object(k, "1", "fb", rows, <<>>, subcategories, NoObject) :
               rows \in RowSets(k),
               subcategories \in Children("ProductSubcategory", MaxSubcategories)}
      [] OTHER -> {Leaf(k, "1", "fb", rows) : rows \in RowSets(k)}

\* "Build name map" and "flatten to just that language" of the category
\* endpoints, for a category or a subcategory.
CategoryName(item, lang) ==
    LET name_map == [l \in DOMAIN item.rows |-> item.rows[l]["name"]]
    IN  IF lang # None /\ lang # "" /\ lang \in DOMAIN name_map
        THEN Scalar(name_map[lang])
        ELSE Map(name_map)

\* get_category for a category that exists.
get_category(item, lang) ==
    [id |-> Scalar(item.id),
     name |-> CategoryName(item, lang),
     subcategories |->
        List([i \in DOMAIN item.subcategories |->
                [id |-> Scalar(item.subcategories[i].id),
                 name |-> CategoryName(item.subcategories[i], lang)]])]

\* list_categories: the same entry for every category.
list_categories(items, lang) ==
    List([i \in DOMAIN items |-> get_category(items[i], lang)])

InitP ==
    /\ kind = "ProductCategory"
    /\ InitSeq
    /\ InitConc
    /\ InitAuth
    /\ InitCascade
    /\ InitRest
    /\ obj \in UNION {Loaded(k) : k \in Classes}
    /\ view = NoView

\* A route returns apply_language_filter(obj, lang).
ApplyLanguageFilter ==
    /\ obj # NoObject /\ view = NoView
    /\ \E lang \in Langs :
         view' = [op |-> "apply_language_filter", lang |-> lang,
                  out |-> apply_language_filter(obj, lang)]
    /\ UNCHANGED <<obj, seqVars, concVars, authVars, cascadeVars, restVars>>

GetCategory ==
    /\ obj # NoObject /\ view = NoView /\ obj.kind = "ProductCategory"
    /\ \E lang \in Langs :
         view' = [op |-> "get_category", lang |-> lang,
                  out |-> get_category(obj, lang)]
    /\ UNCHANGED <<obj, seqVars, concVars, authVars, cascadeVars, restVars>>

ListCategories ==
    /\ obj # NoObject /\ view = NoView /\ obj.kind = "ProductCategory"
    /\ \E lang \in Langs :
         view' = [op |-> "list_categories", lang |-> lang,
                  out |-> list_categories(<<obj>>, lang)]
    /\ UNCHANGED <<obj, seqVars, concVars, authVars, cascadeVars, restVars>>

NextP ==
    \/ ApplyLanguageFilter
    \/ GetCategory
    \/ ListCategories

SpecProj == InitP /\ [][NextP]_vars

\* The read was an apply_language_filter call.
Viewed == view.op = "apply_language_filter"

\* The call asked for a language the object has no row for.
MissingLanguage ==
    Viewed /\ view.lang \notin {None, ""} /\ view.lang \notin DOMAIN obj.rows

\* C12 as stated: with lang=None every translatable field of the entity type
\* is a map with an entry for each of en, ru and hy, the empty string wherever
\* the entity has no data for the language and field, for any number of rows.
C12_ProjectionComplete ==
    (Viewed /\ view.lang = None)
        => \A f \in Columns(obj.kind) :
             /\ f \in DOMAIN view.out
             /\ view.out[f].form = "map"
             /\ DOMAIN view.out[f].value = {"en", "ru", "hy"}
             /\ \A l \in {"en", "ru", "hy"} :
                  (l \notin DOMAIN obj.rows \/ obj.rows[l][f] = None)
                     => view.out[f].value[l] = ""

\* C12 as amended: with lang=None and at least one translation row, every
\* translatable field is a map with an entry for each of en, ru and hy: the
\* row's stored value (null for a NULL column) for a language that has a row,
\* the empty string for a language that has none. Without any row no field is
\* a map and the entity's own columns are returned.
C12_CompleteOverStoredRows ==
    (Viewed /\ view.lang = None)
        => IF DOMAIN obj.rows = {}
           THEN \A k \in EntityColumns(obj.kind) :
                  /\ k \in DOMAIN view.out
                  /\ view.out[k] = Scalar(EntityValue(obj, k))
           ELSE \A f \in Columns(obj.kind) :
                  /\ f \in DOMAIN view.out
                  /\ view.out[f].form = "map"
                  /\ DOMAIN view.out[f].value = {"en", "ru", "hy"}
                  /\ \A l \in {"en", "ru", "hy"} :
                       view.out[f].value[l] =
                          IF l \in DOMAIN obj.rows THEN obj.rows[l][f] ELSE ""

\* A product with a single en row was read with lang=None: name has an entry
\* for each language, empty for ru and hy.
C12_Witness ==
    /\ Viewed /\ view.lang = None /\ obj.kind = "Product"
    /\ DOMAIN obj.rows = {"en"}
    /\ view.out["name"].form = "map"
    /\ view.out["name"].value["ru"] = "" /\ view.out["name"].value["hy"] = ""

\* C13 as stated: a lang the entity has no row for gives the nested form, each
\* translatable field a language-to-value map, not scalars, without the
\* language tag.
C13_FallbackIsNested ==
    MissingLanguage
        => /\ "language" \notin DOMAIN view.out
           /\ \A f \in Columns(obj.kind) :
                f \in DOMAIN view.out /\ view.out[f].form = "map"

\* C13 as amended: a lang the entity has no row for gives, for the entity's
\* own fields, what lang=None gives, without the language tag: every
\* translatable field a language-to-value map when the entity has at least
\* one row, the entity's own columns when it has none.
C13_FallbackAsUnset ==
    MissingLanguage
        => LET unset == apply_language_filter(obj, None)
           IN  /\ "language" \notin DOMAIN view.out
               /\ DOMAIN view.out = DOMAIN unset
               /\ \A k \in DOMAIN view.out \ {"features", "author"} :
                    view.out[k] = unset[k]
               /\ DOMAIN obj.rows # {}
                    => \A f \in Columns(obj.kind) : view.out[f].form = "map"

\* A product with an en row only was read with lang=hy and name is a map.
C13_Witness ==
    /\ MissingLanguage /\ view.lang = "hy" /\ obj.kind = "Product"
    /\ DOMAIN obj.rows = {"en"}
    /\ view.out["name"].form = "map"
    /\ view.out["name"].value["en"] = "a"

\* The serialized features and author of the result.
NestedResults ==
    (IF "features" \in DOMAIN view.out
     THEN {view.out["features"].value[i] : i \in DOMAIN view.out["features"].value}
     ELSE {})
      \cup (IF "author" \in DOMAIN view.out THEN {view.out["author"].value} ELSE {})

\* C14 as stated: the entity and every feature and author of one result are
\* all in flat form (tagged with language) or all in nested form.
C14_SingleShape ==
    Viewed => \A c \in NestedResults :
                 ("language" \in DOMAIN c) <=> ("language" \in DOMAIN view.out)

\* C15: with a lang the entity has a row for, every translatable field is the
\* scalar stored in that row, every other attribute is the entity's, and the
\* result carries language = lang.
C15_FlatProjection ==
    (Viewed /\ view.lang \in DOMAIN obj.rows)
        => /\ "language" \in DOMAIN view.out
           /\ view.out["language"] = Scalar(view.lang)
           /\ \A f \in Columns(obj.kind) :
                f \in DOMAIN view.out
                  /\ view.out[f] = Scalar(obj.rows[view.lang][f])
           /\ \A c \in EntityColumns(obj.kind) \ Columns(obj.kind) :
                c \in DOMAIN view.out
                  /\ view.out[c] = Scalar(EntityValue(obj, c))

\* A product with en and ru rows was read with lang=ru.
C15_Witness ==
    /\ Viewed /\ view.lang = "ru" /\ obj.kind = "Product"
    /\ DOMAIN obj.rows = {"en", "ru"}
    /\ view.out["language"] = Scalar("ru")
    /\ view.out["name"] = Scalar(obj.rows["ru"]["name"])
    /\ view.out["id"] = Scalar("1")

\* C16 as stated: no identifier, foreign-key or language column of the
\* translation row appears in the result as a translated field or overwrites
\* an attribute of the entity, for every entity class.
C16_KeyColumnsExcluded ==
    Viewed
        => /\ DOMAIN view.out \subseteq
                EntityColumns(obj.kind) \cup Columns(obj.kind)
                  \cup {"language", "features", "author"}
           /\ \A c \in EntityColumns(obj.kind) \ Columns(obj.kind) :
                view.out[c] = Scalar(EntityValue(obj, c))
           /\ "language" \in DOMAIN view.out => view.out["language"].form = "scalar"

\* The name the Projector gives an object.
ProjectedName(o, lang) == apply_language_filter(o, lang)["name"]

\* The entry of the category in the result of the category endpoint.
CategoryEntry ==
    IF view.op = "list_categories" THEN view.out.value[1] ELSE view.out

\* C17 as stated: get_category and list_categories give each category and
\* subcategory the name the Projector gives it: with lang omitted a map with
\* an entry for each of en, ru and hy.
C17_CategoryEndpointsProject ==
    view.op \in {"get_category", "list_categories"}
        => /\ CategoryEntry.name.form = ProjectedName(obj, view.lang).form
           /\ CategoryEntry.name.value = ProjectedName(obj, view.lang).value
           /\ \A i \in DOMAIN obj.subcategories :
                LET n == CategoryEntry.subcategories.value[i].name
                    p == ProjectedName(obj.subcategories[i], view.lang)
                IN  n.form = p.form /\ n.value = p.value
           /\ view.lang = None
                => /\ CategoryEntry.name.form = "map"
                   /\ DOMAIN CategoryEntry.name.value = {"en", "ru", "hy"}

\* ------------------------------------------------------------------------
\* Authentication: register, login, /auth/me and the admin dependency
\* ------------------------------------------------------------------------

Usernames == {"u1", "u2"}
Emails == {"e1", "e2"}

\* The password users register with, and the passwords a login can present.
RegisteredPassword == "p"
Passwords == {"p", "q"}

\* The configured signing key, and the keys a presented token can be signed with.
SECRET_KEY == "configured"
Keys == {SECRET_KEY, "other"}

\* Lifetime of a token issued by login, in minutes.
ACCESS_TOKEN_EXPIRE_MINUTES == 30

\* The clock advances by TickMinutes up to MaxTime; at most MaxWrites admin
\* handlers persist a change.
TickMinutes == 15
MaxTime == 45
MaxWrites == 1

\* Every route that depends on get_admin_user.
AdminRoutes ==
    {"upload_image", "create_category", "update_category", "delete_category",
     "create_subcategory", "update_subcategory", "delete_subcategory",
     "create_product", "update_product", "delete_product",
     "create_author", "update_author", "get_author", "delete_author",
     "create_news", "update_news", "delete_news", "statistics"}

\* The admin routes whose handler persists a change.
Mutating(route) == route \notin {"get_author", "statistics"}

\* create_access_token({"sub": username}) at time t.
create_access_token(username, t) ==
    Jwt(username, t + ACCESS_TOKEN_EXPIRE_MINUTES, SECRET_KEY)

\* Expired finding every token current.
Expired_never(token, t, strict) == FALSE

\* The exp check of jwt.decode; whether the instant exp itself counts as
\* expired depends on the PyJWT release.
Expired(token, t, strict) ==
    IF strict THEN token.exp <= t ELSE token.exp < t

\* jwt.decode succeeds: a JWT signed with SECRET_KEY that has not expired.
Decodes(token, t, strict) ==
    token.form = "jwt" /\ token.key = SECRET_KEY /\ ~Expired(token, t, strict)

\* db.query(User).filter(User.username == username)
UserNamed(us, username) == {u \in us : u.username = username}

Unauthorized(code) == [status |-> code, user |-> None]

get_user_by_token(us, token, t, strict) ==
    IF ~Decodes(token, t, strict) \/ token.sub = None THEN Unauthorized(401)
    ELSE IF UserNamed(us, token.sub) = {} THEN Unauthorized(401)
    ELSE [status |-> 200, user |-> token.sub]

\* oauth2_scheme answers 401 without a bearer token.
get_current_user(us, token, t, strict) ==
    IF token.form = "none" THEN Unauthorized(401)
    ELSE get_user_by_token(us, token, t, strict)

\* get_admin_user letting every resolved user through.
get_admin_user_anyUser(us, token, t, strict) ==
    get_current_user(us, token, t, strict)

get_admin_user(us, token, t, strict) ==
    LET found == get_current_user(us, token, t, strict)
    IN  IF found.status # 200 THEN found
        ELSE IF \E u \in UserNamed(us, found.user) : ~u.is_admin
             THEN Unauthorized(403)
             ELSE found

\* The bearer tokens a request can carry: none, a non-JWT string, the token
\* login returned, and JWTs made by someone else with any subject and key.
RequestTokens ==
    {NoToken, Garbage, held}
      \cup {Jwt(sub, now + ACCESS_TOKEN_EXPIRE_MINUTES, key) :
               sub \in Usernames \cup {None}, key \in Keys}

Response(route, token, status, user) ==
    [route |-> route, token |-> token, status |-> status, user |-> user]

SpecAuthInit ==
    /\ kind = "ProductCategory"
    /\ InitSeq
    /\ InitConc
    /\ InitProj
    /\ InitCascade
    /\ InitRest
    /\ InitAuth

Register ==
    /\ resp = NoResponse
    /\ \E username \in Usernames, email \in Emails, is_admin \in BOOLEAN :
         IF UserNamed(users, username) # {} \/ \E u \in users : u.email = email
         THEN /\ resp' = Response("register", NoToken, 400, None)
              /\ users' = users
         ELSE /\ users' = users \cup
                    {[username |-> username, email |-> email,
                      password |-> RegisteredPassword, is_admin |-> is_admin]}
              /\ resp' = Response("register", NoToken, 200, username)
    /\ UNCHANGED <<now, held, writes, seqVars, concVars, projVars, cascadeVars, restVars>>

Login ==
    /\ resp = NoResponse
    /\ \E username \in Usernames, password \in Passwords :
         IF \E u \in UserNamed(users, username) : u.password = password
         THEN /\ held' = create_access_token(username, now)
              /\ resp' = Response("login", held', 200, username)
         ELSE /\ held' = held
              /\ resp' = Response("login", NoToken, 401, None)
    /\ UNCHANGED <<users, now, writes, seqVars, concVars, projVars, cascadeVars, restVars>>

GetMe ==
    /\ resp = NoResponse
    /\ \E token \in RequestTokens, strict \in BOOLEAN :
         LET found == get_current_user(users, token, now, strict)
         IN  resp' = Response("get_me", token, found.status, found.user)
    /\ UNCHANGED <<users, now, held, writes, seqVars, concVars, projVars, cascadeVars, restVars>>

\* A request to an admin route, handled once the previous response is sent:
\* the handler runs only when get_admin_user returns a user.
AdminRequest ==
    /\ resp = NoResponse
    /\ \E route \in AdminRoutes, token \in RequestTokens, strict \in BOOLEAN :
         LET found == get_admin_user(users, token, now, strict)
         IN  IF found.status # 200
             THEN /\ resp' = Response(route, token, found.status, None)
                  /\ writes' = writes
             ELSE /\ Mutating(route) => writes < MaxWrites
                  /\ writes' = IF Mutating(route) THEN writes + 1 ELSE writes
                  /\ resp' = Response(route, token, 200, found.user)
    /\ UNCHANGED <<users, now, held, seqVars, concVars, projVars, cascadeVars, restVars>>

\* The response has been sent; the next request can be handled.
Respond ==
    /\ resp # NoResponse
    /\ resp' = NoResponse
    /\ UNCHANGED <<users, now, held, writes, seqVars, concVars, projVars, cascadeVars, restVars>>

Tick ==
    /\ now + TickMinutes <= MaxTime
    /\ now' = now + TickMinutes
    /\ UNCHANGED <<users, held, writes, resp, seqVars, concVars, projVars, cascadeVars, restVars>>

NextAuth ==
    \/ Register
    \/ Login
    \/ GetMe
    \/ AdminRequest
    \/ Respond
    \/ Tick

SpecAuth == SpecAuthInit /\ [][NextAuth]_vars

\* The token names no admin user the way the claim lists it: no token, an
\* invalid or expired one, one of a user that does not exist or is no admin.
NotOfAnAdmin(token) ==
    \/ token.form # "jwt"
    \/ token.key # SECRET_KEY
    \/ token.exp < now
    \/ token.sub = None
    \/ \A u \in UserNamed(users, token.sub) : ~u.is_admin

\* C18: a request to any admin route that carries no token, an invalid or
\* expired token, a token of a user that does not exist or of a user that is
\* no admin is answered 401 or 403 and changes nothing persisted.
C18_AdminRoutesReject ==
    [][(resp = NoResponse /\ resp'.route \in AdminRoutes /\ NotOfAnAdmin(resp'.token))
         => /\ resp'.status \in {401, 403}
            /\ writes' = writes
            /\ users' = users
            /\ <<seqVars, concVars, cascadeVars>>' = <<seqVars, concVars, cascadeVars>>]_vars

\* delete_category answered 403 to the login token of a registered user who
\* is no admin, after an admin's request had been served.
C18_Witness ==
    /\ resp.route = "delete_category" /\ resp.status = 403
    /\ resp.token = held /\ held.form = "jwt"
    /\ \E u \in users : u.username = held.sub /\ ~u.is_admin
    /\ writes = 1

\* C28: a user with is_admin true comes into existence only through a request
\* authorized by an existing admin, so that a caller who starts without a valid
\* token never gets to perform an admin-only mutation.
C28_AdminsByAdmins ==
    [][(\E u \in users' \ users : u.is_admin) => ~NotOfAnAdmin(resp'.token)]_vars

\* C19: /auth/me answers 200 with the user only to a token that decodes under
\* the configured key, has not expired, has a subject and names an existing
\* user, and 401 to every other; the token login returned is accepted before
\* its expiry and rejected after it.
C19_TokenResolution ==
    [][(resp = NoResponse /\ resp'.route = "get_me")
         => LET token == resp'.token
            IN  /\ resp'.status \in {200, 401}
                /\ resp'.status = 200
                     => /\ token.form = "jwt" /\ token.key = SECRET_KEY
                        /\ token.exp >= now
                        /\ token.sub # None
                        /\ UserNamed(users, token.sub) # {}
                        /\ resp'.user = token.sub
                /\ (token.form = "jwt" /\ token.key = SECRET_KEY
                      /\ token.exp > now /\ token.sub # None
                      /\ UserNamed(users, token.sub) # {})
                     => resp'.status = 200
                /\ (token = held /\ held.form = "jwt" /\ now < held.exp)
                     => resp'.status = 200
                /\ (token = held /\ held.form = "jwt" /\ now > held.exp)
                     => resp'.status = 401]_vars

\* /auth/me rejected the token login returned, after its expiry.
C19_Witness ==
    /\ resp.route = "get_me" /\ resp.status = 401
    /\ resp.token = held /\ held.form = "jwt"
    /\ now > held.exp
    /\ UserNamed(users, held.sub) # {}

\* ------------------------------------------------------------------------
\* Deleting categories and subcategories with their translation rows
\* ------------------------------------------------------------------------

\* The databases SQLALCHEMY_DATABASE_URL can name: the default SQLite file,
\* or a server that enforces foreign keys.
Dialects == {"sqlite", "postgresql"}

\* Largest primary key of a category and of a subcategory, and the longest
\* subcategories list of a request.
MaxCategoryId == 2
MaxSubcategoryId == 2
MaxNewSubcategories == 1

\* The languages of the name maps of the requests, all recognized.
NameLangs == {{}, {"en"}, {"en", "ru"}}

\* The subcategories field of a request: absent, or a list of name maps.
NoList == [given |-> FALSE, list |-> <<>>]
GivenList(list) == [given |-> TRUE, list |-> list]
SubcategoryLists ==
    {NoList} \cup {GivenList(list) :
                     list \in UNION {[1..n -> NameLangs] : n \in 0..MaxNewSubcategories}}

\* ON DELETE CASCADE acts only where the database enforces foreign keys;
\* SQLite does not unless the connection turns them on.
ForeignKeysEnforced == dialect # "sqlite"

Ids(rows) == {r.id : r \in rows}

Max(S) == CHOOSE x \in S : \A y \in S : y <= x

\* The primary key an INSERT gets: SQLite's rowid, one more than the largest
\* present (a server's sequence differs only in never reusing a key).
NewId(ids) == Max(ids \cup {0}) + 1

\* A translation row, by its foreign key and language.
TranslationRow(fk, language) == [fk |-> fk, language |-> language]

\* The rows of a translation table after save_translations for entity id with
\* a name map of recognized languages: a no-op for an empty map.
SavedRows(rows, id, langs) ==
    IF langs = {} THEN rows
    ELSE {r \in rows : r.fk # id} \cup {TranslationRow(id, l) : l \in langs}

\* db.add(ProductSubcategory(category_id=...)), db.flush() and, for a
\* non-empty name map, save_translations.
add_subcategory(st, category_id, langs) ==
    LET id == NewId(Ids(st.subcategories))
    IN  [st EXCEPT
           !.subcategories = @ \cup {[id |-> id, category_id |-> category_id]},
           !.subcategory_translations = SavedRows(@, id, langs)]

RECURSIVE add_subcategories(_, _, _)
add_subcategories(st, category_id, list) ==
    IF list = <<>> THEN st
    ELSE add_subcategories(add_subcategory(st, category_id, Head(list)),
                           category_id, Tail(list))

\* db.query(ProductSubcategory).filter(category_id == id).delete(): one DELETE
\* statement; the translation rows go only by the database's ON DELETE CASCADE.
bulk_delete_subcategories(st, category_id) ==
    LET gone == {sc \in st.subcategories : sc.category_id = category_id}
    IN  [st EXCEPT
           !.subcategories = @ \ gone,
           !.subcategory_translations =
               IF ForeignKeysEnforced
               THEN {r \in @ : r.fk \notin Ids(gone)}
               ELSE @]

\* db.delete(subcategory): the session deletes the loaded translations too.
orm_delete_subcategories(st, gone) ==
    [st EXCEPT
       !.subcategories = @ \ gone,
       !.subcategory_translations = {r \in @ : r.fk \notin Ids(gone)}]

\* db.delete(category): the session deletes its translations and its
\* subcategories, each with its translations.
orm_delete_category(st, id) ==
    LET subs == {sc \in st.subcategories : sc.category_id = id}
        less == orm_delete_subcategories(st, subs)
    IN  [less EXCEPT
           !.categories = @ \ {id},
           !.category_translations = {r \in @ : r.fk # id}]

\* The ids the subcategories list of a request will take stay within the bound.
FitsSubcategories(st, list) ==
    NewId(Ids(st.subcategories)) + Len(list) - 1 <= MaxSubcategoryId

SpecCascadeInit ==
    /\ kind = "ProductCategory"
    /\ InitSeq
    /\ InitConc
    /\ InitProj
    /\ InitAuth
    /\ InitRest
    /\ dialect \in Dialects
    /\ store = EmptyStore

CreateCategoryRows ==
    /\ \E name \in NameLangs, subcategories \in SubcategoryLists :
         LET id == NewId(store.categories)
             made == [store EXCEPT
                        !.categories = @ \cup {id},
                        !.category_translations = SavedRows(@, id, name)]
         IN  /\ id <= MaxCategoryId
             /\ FitsSubcategories(store, subcategories.list)
             /\ store' = add_subcategories(made, id, subcategories.list)
    /\ UNCHANGED <<dialect, seqVars, concVars, projVars, authVars, restVars>>

UpdateCategoryRows ==
    /\ \E id \in 1..MaxCategoryId, name \in NameLangs,
          subcategories \in SubcategoryLists :
         IF id \notin store.categories THEN store' = store
         ELSE LET named == [store EXCEPT
                              !.category_translations = SavedRows(@, id, name)]
                  emptied == bulk_delete_subcategories(named, id)
              IN  /\ FitsSubcategories(emptied, subcategories.list)
                  /\ store' = IF ~subcategories.given THEN named
                              ELSE add_subcategories(emptied, id, subcategories.list)
    /\ UNCHANGED <<dialect, seqVars, concVars, projVars, authVars, restVars>>

DeleteCategoryRows ==
    /\ \E id \in 1..MaxCategoryId :
         store' = IF id \in store.categories
                  THEN orm_delete_category(store, id) ELSE store
    /\ UNCHANGED <<dialect, seqVars, concVars, projVars, authVars, restVars>>

CreateSubcategoryRows ==
    /\ \E category_id \in 1..MaxCategoryId, name \in NameLangs :
         IF category_id \notin store.categories THEN store' = store
         ELSE /\ FitsSubcategories(store, <<name>>)
              /\ store' = add_subcategory(store, category_id, name)
    /\ UNCHANGED <<dialect, seqVars, concVars, projVars, authVars, restVars>>

DeleteSubcategoryRows ==
    /\ \E id \in 1..MaxSubcategoryId :
         store' = orm_delete_subcategories(
                      store, {sc \in store.subcategories : sc.id = id})
    /\ UNCHANGED <<dialect, seqVars, concVars, projVars, authVars, restVars>>

NextCascade ==
    \/ CreateCategoryRows
    \/ UpdateCategoryRows
    \/ DeleteCategoryRows
    \/ CreateSubcategoryRows
    \/ DeleteSubcategoryRows

SpecCascade == SpecCascadeInit /\ [][NextCascade]_vars

\* C20 as stated: after every deleting operation no translation row and no
\* owned child row referring to a deleted category or subcategory remains:
\* every row of a translation table and every subcategory refers to a row
\* that is in the store.
C20_CascadeOnDelete ==
    /\ \A r \in store.category_translations : r.fk \in store.categories
    /\ \A sc \in store.subcategories : sc.category_id \in store.categories
    /\ \A r \in store.subcategory_translations : r.fk \in Ids(store.subcategories)

\* ------------------------------------------------------------------------
\* The WSGI application around the ASGI app: error responses and CORS headers
\* ------------------------------------------------------------------------

\* allow_origins of the CORS middleware.
AllowedOrigins == {"https://palyan.onrender.com", "https://palyan.am"}

\* The Origin header of a request: absent, a configured origin, or another.
Origins == {None} \cup AllowedOrigins \cup {"https://other.example"}

\* Status codes of the HTTPExceptions the routes and dependencies raise.
HttpErrors == {400, 401, 403, 404}

\* Exceptions no route handles.
Unhandled == {"TypeError", "IntegrityError"}

\* The other groups of variables.
beyondWsgi ==
    <<seqVars, concVars, projVars, authVars, cascadeVars, catalog, pending, links>>

\* The request methods; OPTIONS stands for a CORS preflight request.
Methods == {"GET", "PUT", "OPTIONS"}

\* A response: status, whether the body holds the text of an exception, and
\* the Access-Control-Allow-Origin header (None when absent).
Reply(status, exception_text, allow_origin) ==
    [status |-> status, exception_text |-> exception_text,
     allow_origin |-> allow_origin]

\* CORSMiddleware: the header is set to the request's origin when the origin
\* is one of allow_origins.
CorsHeader(origin) == IF origin \in AllowedOrigins THEN origin ELSE None

\* The statuses the ASGI app can answer a request with: the preflight
\* response of the CORS middleware (200, or 400 for another origin), 405 for
\* OPTIONS without an origin, else a route's result or its HTTPException.
AppStatuses(method, origin) ==
    IF method = "OPTIONS"
    THEN IF origin = None THEN {405}
         ELSE IF origin \in AllowedOrigins THEN {200} ELSE {400}
    ELSE {200} \cup HttpErrors

\* The except branch of application: 500, text/plain, the exception's text in
\* the body, and the request's origin or * as allowed origin.
ErrorReply(origin) ==
    Reply(500, TRUE, IF origin = None THEN "*" ELSE origin)

\* application after the ASGI app returned: when the response has no
\* Access-Control-Allow-Origin header and the request has an origin, the
\* header is added with that origin.
Bridged(origin, reply) ==
    IF reply.allow_origin = None /\ origin # None
    THEN [reply EXCEPT !.allow_origin = origin]
    ELSE reply

SpecWsgiInit ==
    /\ kind = "ProductCategory"
    /\ InitSeq
    /\ InitConc
    /\ InitProj
    /\ InitAuth
    /\ InitCascade
    /\ InitRest

\* A request enters application with its method, Origin and CONTENT_LENGTH.
Receive ==
    /\ exchange.pc \in {"idle", "answered"}
    /\ \E method \in Methods, origin \in Origins, length_ok \in BOOLEAN :
         exchange' = [pc |-> "received", method |-> method, origin |-> origin,
                      length_ok |-> length_ok]
    /\ UNCHANGED beyondWsgi

\* int(CONTENT_LENGTH) raises inside application.
RejectLength ==
    /\ exchange.pc = "received" /\ ~exchange.length_ok
    /\ exchange' = [pc |-> "answered", method |-> exchange.method,
                    origin |-> exchange.origin, raised |-> "ValueError",
                    reply |-> ErrorReply(exchange.origin)]
    /\ UNCHANGED beyondWsgi

\* The ASGI app sends its response: a result, or the detail of an
\* HTTPException, with the headers of the CORS middleware.
RunApp ==
    /\ exchange.pc = "received" /\ exchange.length_ok
    /\ \E status \in AppStatuses(exchange.method, exchange.origin) :
         exchange' = [pc |-> "sent", method |-> exchange.method,
                      origin |-> exchange.origin, raised |-> None,
                      reply |-> Reply(status, FALSE, CorsHeader(exchange.origin))]
    /\ UNCHANGED beyondWsgi

\* A route raises an exception nothing handles: the server error middleware
\* re-raises it and run_until_complete passes it to the except branch.
RunAppRaises ==
    /\ exchange.pc = "received" /\ exchange.length_ok
    /\ exchange.method # "OPTIONS"
    /\ \E e \in Unhandled :
         exchange' = [pc |-> "answered", method |-> exchange.method,
                      origin |-> exchange.origin, raised |-> e,
                      reply |-> ErrorReply(exchange.origin)]
    /\ UNCHANGED beyondWsgi

\* application passes the ASGI app's response on, after its own CORS step.
Answer ==
    /\ exchange.pc = "sent"
    /\ exchange' = [exchange EXCEPT !.pc = "answered",
                                    !.reply = Bridged(exchange.origin, @)]
    /\ UNCHANGED beyondWsgi

NextWsgi ==
    \/ Receive
    \/ RejectLength
    \/ RunApp
    \/ RunAppRaises
    \/ Answer

SpecWsgi == SpecWsgiInit /\ [][NextWsgi]_vars

\* C22 as stated: every failing request, one failing with an unexpected
\* exception in a route or in the WSGI application included, gets a response
\* with a status code and a message that holds no exception text.
C22_NoExceptionText ==
    (exchange.pc = "answered" /\ exchange.reply.status >= 400)
        => ~exchange.reply.exception_text

\* C30 as stated: a response that carries Access-Control-Allow-Origin names
\* one of the two configured origins, on success and on error.
C30_OnlyConfiguredOrigins ==
    (exchange.pc = "answered" /\ exchange.reply.allow_origin # None)
        => exchange.reply.allow_origin \in AllowedOrigins

\* ------------------------------------------------------------------------
\* Feature synchronisation of update_product and update_news (main.py)
\* ------------------------------------------------------------------------

\* The products (or news items) that exist while features are synchronised.
Owners == {1, 2}

MaxFeatureId == 2
MaxIncoming == 2

\* The feature class of the entity class.
FeatureKind(k) == IF k = "Product" THEN "ProductFeature" ELSE "NewsFeatures"

\* The feature table: primary key -> owner, title and translation rows.
NoFeatures == [i \in {} |-> None]

\* A title or description of an incoming entry: absent, or a map with the
\* English text.
EnglishMap == MapDict([l \in {"en"} |-> StrData("b")])

\* The (title, description) pairs of the incoming entries. A description
\* without a title is drawn for news features, whose translation rows need a
\* title; for product features it is saved as a title map is.
FeatureTexts(k) ==
    {<<NoDict, NoDict>>, <<EnglishMap, NoDict>>}
        \cup (IF k = "News" THEN {<<NoDict, EnglishMap>>} ELSE {})

\* The incoming entries for a table holding the features `known`: the ids in
\* the table, the first id that is not in it, and id 0 for an entry without a
\* (truthy) id, left out when the table has no id left for a new feature.
FeatureEntries(k, known) ==
    {[id |-> id, title |-> td[1], description |-> td[2]] :
        id \in (known \cup {NewId(known)}
                  \cup (IF NewId(known) <= MaxFeatureId THEN {0} ELSE {}))
               \cap 0..MaxFeatureId,
        td \in FeatureTexts(k)}

\* data.features: None, or a list of entries.
FeatureLists(k, known) ==
    {NoList} \cup {GivenList(list) :
                     list \in UNION {[1..n -> FeatureEntries(k, known)] :
                                       n \in 0..MaxIncoming}}

\* f_title after the isinstance test: the first value of a map, the value
\* itself otherwise (None when absent).
FirstTitle(title) ==
    CASE title.type = "dict" ->
             IF DOMAIN title.items = {} THEN None
             ELSE (CHOOSE x \in Range(title.items) : TRUE).v
      [] title.type = "str" -> title.s
      [] OTHER -> None

\* A feature synchronisation in progress: the committed table, the table as
\* the session sees it, and whether a call raised.
Progress(committed, session) ==
    [committed |-> committed, session |-> session, raised |-> FALSE]

\* `if f_trans and isinstance(f_trans, dict): save_translations(db, feature_obj,
\* f_trans, ..., name_field=nf)`; the call commits the session.
SaveFeature(k, st, id, d, nf) ==
    IF st.raised \/ ~Provided(d) THEN st
    ELSE LET r == save_translations(st.session[id].rows, d, FeatureKind(k), nf)
             saved == [st.session EXCEPT ![id].rows = r.rows]
         IN  IF r.raised THEN [st EXCEPT !.raised = TRUE]
             ELSE Progress(saved, saved)

\* The lookup of an incoming id: existing_by_id.get(f_id) or db.get(Feature, f_id),
\* which finds a feature of any owner.
FeatureObj(st, owner, f_id) ==
    IF f_id \in DOMAIN st.session THEN {f_id} ELSE {}

\* The loop body for one incoming entry.
SyncEntry(k, owner, st, f_in) ==
    LET f_title == FirstTitle(f_in.title)
    IN  IF f_in.id # 0
        THEN IF FeatureObj(st, owner, f_in.id) = {}
             THEN st
             ELSE LET titled ==
                        IF f_title # None
                        THEN [st EXCEPT !.session[f_in.id].title = f_title]
                        ELSE st
                  IN  SaveFeature(k, SaveFeature(k, titled, f_in.id, f_in.title, "title"),
                                  f_in.id, f_in.description, "description")
        ELSE LET id == NewId(DOMAIN st.session)
                 new_feature ==
                     [owner |-> owner,
                      title |-> IF f_title = None THEN "" ELSE f_title,
                      rows |-> NoRows]
                 added ==
                     [st EXCEPT !.session =
                         [i \in DOMAIN st.session \cup {id} |->
                             IF i = id THEN new_feature ELSE st.session[i]]]
             IN  SaveFeature(k, SaveFeature(k, added, id, f_in.title, "title"),
                             id, f_in.description, "description")

RECURSIVE SyncEntries(_, _, _, _)
SyncEntries(k, owner, st, incoming) ==
    IF incoming = <<>> \/ st.raised THEN st
    ELSE SyncEntries(k, owner, SyncEntry(k, owner, st, Head(incoming)), Tail(incoming))

\* incoming_ids: the truthy ids of the incoming entries.
IncomingIds(incoming) ==
    {incoming[i].id : i \in DOMAIN incoming} \ {0}

\* DeletedFeatures with the delete loop left out.
DeletedFeatures_none(existing_ids, incoming_ids) == {}

\* `for existing in existing_features: if existing.id not in incoming_ids:
\* db.delete(existing)`.
DeletedFeatures(existing_ids, incoming_ids) == existing_ids \ incoming_ids

OwnedBy(features, owner) == {i \in DOMAIN features : features[i].owner = owner}

\* The features block of update_product / update_news and the final commit.
\* The result is the committed table and whether the request raised.
sync_features(k, features, owner, data_features) ==
    IF ~data_features.given
    THEN [features |-> features, raised |-> FALSE]
    ELSE LET incoming == data_features.list
             existing_ids == OwnedBy(features, owner)
             st == SyncEntries(k, owner, Progress(features, features), incoming)
             deleted == DeletedFeatures(existing_ids, IncomingIds(incoming))
         IN  IF st.raised
             THEN [features |-> st.committed, raised |-> TRUE]
             ELSE [features |-> [i \in DOMAIN st.session \ deleted |-> st.session[i]],
                   raised |-> FALSE]

\* The number of entries without an id.
Fresh(incoming) == Cardinality({i \in DOMAIN incoming : incoming[i].id = 0})

NoSync ==
    [op |-> "none", owner |-> 0, given |-> FALSE, ids |-> {}, fresh |-> 0,
     raised |-> FALSE]

beyondFeatures ==
    <<seqVars, concVars, projVars, authVars, cascadeVars, exchange, pending, links>>

SpecFeaturesInit ==
    /\ kind = "ProductCategory"
    /\ InitSeq
    /\ InitConc
    /\ InitProj
    /\ InitAuth
    /\ InitCascade
    /\ exchange = NoExchange
    /\ pending = [s \in {"s1", "s2"} |-> NoRegistration]
    /\ links = EmptyLinks
    /\ \E k \in {"Product", "News"} :
          catalog = [kind |-> k, features |-> NoFeatures, last |-> NoSync]

\* PUT /admin/products/{id} or /admin/news/{id} with a features field.
UpdateFeatures ==
    /\ catalog.last = NoSync
    /\ \E owner \in Owners, data_features \in FeatureLists(catalog.kind, DOMAIN catalog.features) :
          LET r == sync_features(catalog.kind, catalog.features, owner, data_features)
          IN  /\ NewId(DOMAIN catalog.features) + Fresh(data_features.list)
                    <= MaxFeatureId + 1
              /\ catalog' =
                   [catalog EXCEPT
                      !.features = r.features,
                      !.last = [op |-> "update", owner |-> owner,
                                given |-> data_features.given,
                                ids |-> IncomingIds(data_features.list),
                                fresh |-> Fresh(data_features.list),
                                raised |-> r.raised]]
    /\ UNCHANGED beyondFeatures

\* The response has been sent.
FeaturesAnswered ==
    /\ catalog.last # NoSync
    /\ catalog' = [catalog EXCEPT !.last = NoSync]
    /\ UNCHANGED beyondFeatures

NextFeatures == UpdateFeatures \/ FeaturesAnswered

SpecFeatures == SpecFeaturesInit /\ [][NextFeatures]_vars

\* A request that has just been handled without an error.
Synced ==
    catalog.last = NoSync /\ catalog'.last.op = "update" /\ ~catalog'.last.raised

\* C23: after update_product / update_news succeeds with a features list L, the
\* entity's features are the previously existing ones whose id appears in L
\* plus one new feature per entry without an id (none of the old ones for an
\* empty L); with features None they are unchanged.
C23_FeatureSync ==
    [][Synced =>
         LET owner == catalog'.last.owner
             before == OwnedBy(catalog.features, owner)
             after == OwnedBy(catalog'.features, owner)
         IN  IF catalog'.last.given
             THEN /\ after \cap DOMAIN catalog.features = before \cap catalog'.last.ids
                  /\ Cardinality(after \ DOMAIN catalog.features) = catalog'.last.fresh
             ELSE catalog'.features = catalog.features]_vars

\* An update has succeeded whose list named a feature the entity keeps and
\* carried one entry without an id.
C23_Witness ==
    /\ catalog.last.op = "update" /\ ~catalog.last.raised /\ catalog.last.given
    /\ catalog.last.fresh = 1
    /\ catalog.last.ids \cap OwnedBy(catalog.features, catalog.last.owner) # {}

\* C27: update_product / update_news change only features of the entity they
\* address; a feature of another entity keeps its title and translation rows.
C27_OwnFeaturesOnly ==
    [][(catalog.last = NoSync /\ catalog'.last.op = "update") =>
         \A i \in DOMAIN catalog.features :
            catalog.features[i].owner # catalog'.last.owner
               => /\ i \in DOMAIN catalog'.features
                  /\ catalog'.features[i] = catalog.features[i]]_vars

\* ------------------------------------------------------------------------
\* Fallback scalar and multi-field writes (main.py)
\* ------------------------------------------------------------------------

\* The state was reached by create, update and delete routes alone.
ByRoutes == pc = "setup" \/ (pc = "observed" /\ req.op # "save_translations")

\* C24: after any sequence of admin creates and updates, an entity with at
\* least one translation row has a fallback scalar equal to the primary-field
\* value of one of its current translation rows.
C24_FallbackFromRows ==
    (ByRoutes /\ db.exists /\ DOMAIN db.rows # {})
        => \E l \in DOMAIN db.rows : db.rows[l][FallbackField(kind)] = db.fallback

\* The observed request was a create or update of a product or news item that
\* saved a name map and then a description map, and did not raise.
SavedNameThenDescription ==
    /\ pc = "observed"
    /\ req.op \in {"create_product", "update_product", "create_news", "update_news"}
    /\ Provided(req.name) /\ Provided(req.description)
    /\ ~raised

\* C26: after a create or update that saves a name map N and then a second map
\* D, every recognized language of N has a translation row holding N's name.
C26_NameRowsKept ==
    SavedNameThenDescription
        => \A l \in DOMAIN req.name.items \cap LanguageEnum :
              LET data_map == DataMap(req.name.items[l], FallbackField(kind))
              IN  FallbackField(kind) \in DOMAIN data_map
                     => /\ l \in DOMAIN db.rows
                        /\ db.rows[l][FallbackField(kind)] = data_map[FallbackField(kind)]

\* ------------------------------------------------------------------------
\* Concurrent register requests (main.py, db.py)
\* ------------------------------------------------------------------------

\* A register request in a session: where the handler is, the body, whether
\* the username or the email was in the table when the request arrived, and
\* the status answered (0 while the handler runs).
Registration(at, body, existed, status) ==
    [pc |-> at, username |-> body.username, email |-> body.email,
     is_admin |-> body.is_admin, existed |-> existed, status |-> status]

RegisterBodies == [username : Usernames, email : Emails, is_admin : BOOLEAN]

UsernameExists(us, username) == \E u \in us : u.username = username

EmailExists(us, email) == \E u \in us : u.email = email

\* ViolatesUnique without the unique indexes.
ViolatesUnique_unconstrained(us, username, email) == FALSE

\* username and email are unique=True: the INSERT of a second row with either
\* value raises IntegrityError.
ViolatesUnique(us, username, email) ==
    UsernameExists(us, username) \/ EmailExists(us, email)

beyondRegister ==
    <<seqVars, concVars, projVars, cascadeVars, now, held, writes, resp,
      exchange, catalog, links>>

SpecRegisterInit ==
    /\ kind = "ProductCategory"
    /\ InitSeq
    /\ InitConc
    /\ InitProj
    /\ InitAuth
    /\ InitCascade
    /\ InitRest

\* POST /auth/register arrives in a session.
RegisterArrives(s) ==
    /\ pending[s].pc = "idle"
    /\ \E body \in RegisterBodies :
         pending' = [pending EXCEPT ![s] =
            Registration("arrived", body,
                         UsernameExists(users, body.username)
                            \/ EmailExists(users, body.email), 0)]
    /\ UNCHANGED <<users, beyondRegister>>

\* `if db.query(User).filter(User.username == user.username).first(): raise
\* HTTPException(400)`.
CheckUsername(s) ==
    /\ pending[s].pc = "arrived"
    /\ pending' = [pending EXCEPT ![s] =
          IF UsernameExists(users, pending[s].username)
          THEN [pending[s] EXCEPT !.pc = "done", !.status = 400]
          ELSE [pending[s] EXCEPT !.pc = "username_free"]]
    /\ UNCHANGED <<users, beyondRegister>>

\* `if db.query(User).filter(User.email == user.email).first(): raise
\* HTTPException(400)`.
CheckEmail(s) ==
    /\ pending[s].pc = "username_free"
    /\ pending' = [pending EXCEPT ![s] =
          IF EmailExists(users, pending[s].email)
          THEN [pending[s] EXCEPT !.pc = "done", !.status = 400]
          ELSE [pending[s] EXCEPT !.pc = "email_free"]]
    /\ UNCHANGED <<users, beyondRegister>>

\* db.add(db_user); db.commit(): the row is inserted, or the INSERT raises and
\* the request ends with a server error.
CommitUser(s) ==
    /\ pending[s].pc = "email_free"
    /\ IF ViolatesUnique(users, pending[s].username, pending[s].email)
       THEN /\ users' = users
            /\ pending' = [pending EXCEPT ![s].pc = "done", ![s].status = 500]
       ELSE /\ users' = users \cup
                   {[username |-> pending[s].username, email |-> pending[s].email,
                     password |-> RegisteredPassword,
                     is_admin |-> pending[s].is_admin]}
            /\ pending' = [pending EXCEPT ![s].pc = "done", ![s].status = 200]
    /\ UNCHANGED beyondRegister

\* The response has been sent; the session takes the next request.
RegisterAnswered(s) ==
    /\ pending[s].pc = "done"
    /\ pending' = [pending EXCEPT ![s] = NoRegistration]
    /\ UNCHANGED <<users, beyondRegister>>

NextRegister ==
    \E s \in Sessions :
        \/ RegisterArrives(s)
        \/ CheckUsername(s)
        \/ CheckEmail(s)
        \/ CommitUser(s)
        \/ RegisterAnswered(s)

SpecRegister == SpecRegisterInit /\ [][NextRegister]_vars

\* No two users share a username or an email.
UniqueUsers ==
    \A u, v \in users : (u.username = v.username \/ u.email = v.email) => u = v

\* A session's request ends in this step.
Ends(s) == pending[s].pc # "done" /\ pending'[s].pc = "done"

NoRef == 0

\* Largest primary key of an author, category or subcategory and largest id a
\* request names; largest primary key of a news item or product.
MaxRefId == 2
MaxItemId == 1

RefIds == 0..MaxRefId

NoItems == [i \in {} |-> NoRef]

\* The INSERT or UPDATE of a row whose foreign key names no row raises
\* IntegrityError where the database enforces foreign keys.
ForeignKeyFails(ref, ids) == ForeignKeysEnforced /\ ref # NoRef /\ ref \notin ids

\* ondelete="SET NULL", carried out by the database when it enforces foreign
\* keys: the referring column of the rows that named a deleted row.
SetNull(ref, gone) == IF ForeignKeysEnforced /\ ref \in gone THEN NoRef ELSE ref

\* A function with one more argument.
With(f, id, value) == [i \in DOMAIN f \cup {id} |-> IF i = id THEN value ELSE f[i]]

\* A function without some arguments.
Without(f, gone) == [i \in DOMAIN f \ gone |-> f[i]]

\* The products after the DELETE of categories and subcategories.
ProductsAfterDelete(products, gone_categories, gone_subcategories) ==
    [p \in DOMAIN products |->
        [category_id |-> SetNull(products[p].category_id, gone_categories),
         subcategory_id |-> SetNull(products[p].subcategory_id, gone_subcategories)]]

SubcategoriesOf(l, category_id) ==
    {s \in DOMAIN l.subcategories : l.subcategories[s] = category_id}

beyondLinks ==
    <<seqVars, concVars, projVars, authVars, store, exchange, catalog, pending>>

SpecLinksInit ==
    /\ kind = "ProductCategory"
    /\ InitSeq
    /\ InitConc
    /\ InitProj
    /\ InitAuth
    /\ store = EmptyStore
    /\ exchange = NoExchange
    /\ catalog = EmptyCatalog
    /\ pending = [s \in Sessions |-> NoRegistration]
    /\ dialect \in Dialects
    /\ links = EmptyLinks

\* create_author.
CreateAuthorLink ==
    /\ NewId(links.authors) <= MaxRefId
    /\ links' = [links EXCEPT !.authors = @ \cup {NewId(links.authors)}]
    /\ UNCHANGED <<dialect, beyondLinks>>

\* delete_author: News.author has no delete cascade, so db.delete(author_obj)
\* sets author_id of the author's news to NULL before the DELETE.
DeleteAuthorLink ==
    /\ \E id \in links.authors :
         links' = [links EXCEPT
                     !.authors = @ \ {id},
                     !.news = [n \in DOMAIN @ |-> IF @[n] = id THEN NoRef ELSE @[n]]]
    /\ UNCHANGED <<dialect, beyondLinks>>

\* create_news with an author object (a new author is created and used), or
\* else with author_id, or with neither.
CreateNewsLink ==
    /\ NewId(DOMAIN links.news) <= MaxItemId
    /\ \E author \in BOOLEAN, author_id \in RefIds :
         IF author
         THEN /\ NewId(links.authors) <= MaxRefId
              /\ links' = [links EXCEPT
                             !.authors = @ \cup {NewId(links.authors)},
                             !.news = With(@, NewId(DOMAIN @), NewId(links.authors))]
         ELSE IF ForeignKeyFails(author_id, links.authors)
              THEN links' = links
              ELSE links' = [links EXCEPT !.news = With(@, NewId(DOMAIN @), author_id)]
    /\ UNCHANGED <<dialect, beyondLinks>>

\* update_news: an author object updates the item's author or creates one for
\* an item without author; else author_id, if not None, is assigned as given.
UpdateNewsLink ==
    /\ \E id \in DOMAIN links.news, author \in BOOLEAN, author_id \in RefIds :
         IF author
         THEN IF links.news[id] \in links.authors
              THEN links' = links
              ELSE /\ NewId(links.authors) <= MaxRefId
                   /\ links' = [links EXCEPT
                                  !.authors = @ \cup {NewId(links.authors)},
                                  !.news[id] = NewId(links.authors)]
         ELSE IF author_id = NoRef \/ ForeignKeyFails(author_id, links.authors)
              THEN links' = links
              ELSE links' = [links EXCEPT !.news[id] = author_id]
    /\ UNCHANGED <<dialect, beyondLinks>>

\* delete_news.
DeleteNewsLink ==
    /\ \E id \in DOMAIN links.news : links' = [links EXCEPT !.news = Without(@, {id})]
    /\ UNCHANGED <<dialect, beyondLinks>>

\* create_category without subcategories.
CreateCategoryLink ==
    /\ NewId(links.categories) <= MaxRefId
    /\ links' = [links EXCEPT !.categories = @ \cup {NewId(links.categories)}]
    /\ UNCHANGED <<dialect, beyondLinks>>

\* delete_category: the session deletes the category and its subcategories;
\* Product has no relationship to either, so its columns are left to the
\* database's ON DELETE SET NULL.
DeleteCategoryLink ==
    /\ \E id \in links.categories :
         LET subs == SubcategoriesOf(links, id)
         IN  links' = [links EXCEPT
                         !.categories = @ \ {id},
                         !.subcategories = Without(@, subs),
                         !.products = ProductsAfterDelete(@, {id}, subs)]
    /\ UNCHANGED <<dialect, beyondLinks>>

\* update_category with a subcategories list: the category's subcategories
\* are deleted in bulk and one is inserted per entry of the list.
ReplaceSubcategories ==
    /\ \E id \in links.categories, entries \in 0..1 :
         LET subs == SubcategoriesOf(links, id)
             kept == Without(links.subcategories, subs)
         IN  /\ entries = 1 => NewId(DOMAIN kept) <= MaxRefId
             /\ links' = [links EXCEPT
                            !.subcategories =
                                IF entries = 1 THEN With(kept, NewId(DOMAIN kept), id)
                                ELSE kept,
                            !.products = ProductsAfterDelete(@, {}, subs)]
    /\ UNCHANGED <<dialect, beyondLinks>>

\* create_subcategory: 404 unless the category exists.
CreateSubcategoryLink ==
    /\ NewId(DOMAIN links.subcategories) <= MaxRefId
    /\ \E category_id \in 1..MaxRefId :
         IF category_id \notin links.categories
         THEN links' = links
         ELSE links' = [links EXCEPT
                          !.subcategories = With(@, NewId(DOMAIN @), category_id)]
    /\ UNCHANGED <<dialect, beyondLinks>>

\* delete_subcategory.
DeleteSubcategoryLink ==
    /\ \E id \in DOMAIN links.subcategories :
         links' = [links EXCEPT
                     !.subcategories = Without(@, {id}),
                     !.products = ProductsAfterDelete(@, {}, {id})]
    /\ UNCHANGED <<dialect, beyondLinks>>

\* create_product: category_id and subcategory_id are stored as given.
CreateProductLink ==
    /\ NewId(DOMAIN links.products) <= MaxItemId
    /\ \E category_id, subcategory_id \in RefIds :
         IF \/ ForeignKeyFails(category_id, links.categories)
            \/ ForeignKeyFails(subcategory_id, DOMAIN links.subcategories)
         THEN links' = links
         ELSE links' = [links EXCEPT
                          !.products =
                              With(@, NewId(DOMAIN @),
                                   [category_id |-> category_id,
                                    subcategory_id |-> subcategory_id])]
    /\ UNCHANGED <<dialect, beyondLinks>>

\* update_product: setattr for every scalar field that is set and not None.
UpdateProductLink ==
    /\ \E id \in DOMAIN links.products, category_id, subcategory_id \in RefIds :
         IF \/ ForeignKeyFails(category_id, links.categories)
            \/ ForeignKeyFails(subcategory_id, DOMAIN links.subcategories)
         THEN links' = links
         ELSE links' = [links EXCEPT
                          !.products[id] =
                              [category_id |->
                                   IF category_id # NoRef THEN category_id
                                   ELSE @.category_id,
                               subcategory_id |->
                                   IF subcategory_id # NoRef THEN subcategory_id
                                   ELSE @.subcategory_id]]
    /\ UNCHANGED <<dialect, beyondLinks>>

\* delete_product.
DeleteProductLink ==
    /\ \E id \in DOMAIN links.products :
         links' = [links EXCEPT !.products = Without(@, {id})]
    /\ UNCHANGED <<dialect, beyondLinks>>

NextLinks ==
    \/ CreateAuthorLink
    \/ DeleteAuthorLink
    \/ CreateNewsLink
    \/ UpdateNewsLink
    \/ DeleteNewsLink
    \/ CreateCategoryLink
    \/ DeleteCategoryLink
    \/ ReplaceSubcategories
    \/ CreateSubcategoryLink
    \/ DeleteSubcategoryLink
    \/ CreateProductLink
    \/ UpdateProductLink
    \/ DeleteProductLink

SpecLinks == SpecLinksInit /\ [][NextLinks]_vars

\* C29: every non-null news.author_id, product.category_id and
\* product.subcategory_id refers to an existing author, category or
\* subcategory, after any sequence of admin writes and deletes.
C29_ReferencesExist ==
    /\ \A n \in DOMAIN links.news :
          links.news[n] # NoRef => links.news[n] \in links.authors
    /\ \A p \in DOMAIN links.products :
          /\ links.products[p].category_id # NoRef
                => links.products[p].category_id \in links.categories
          /\ links.products[p].subcategory_id # NoRef
                => links.products[p].subcategory_id \in DOMAIN links.subcategories

====
